---- MODULE Spec2Model ----
(***************************************************************************)
(* A model of the api-ref-resolver engine (src/src/ApiRefResolver.ts, the  *)
(* last revision in that file, with src/src/RefVisitor.ts and              *)
(* src/src/JsonNavigation.ts).                                             *)
(*                                                                         *)
(* JSON objects live in a heap and are addressed by identity, because the  *)
(* resolver inserts, tags and rewrites the objects of the cached source    *)
(* documents themselves.  A `$ref` string is kept in structured form       *)
(* (local `#/..`, relative, absolute) so that URL resolution, memo lookup  *)
(* by string and the `#` prefix test are computed as the code computes     *)
(* them.                                                                   *)
(***************************************************************************)
EXTENDS Integers, Sequences, FiniteSets, TLC

\* cap on the number of passes of the driver loop explored by the model
MaxPass == 6

\* cap on the depth of the traversal stack explored by the model
MaxDepth == 8

\* the calls of resolve() on one resolver that find the document resolved already
MaxCalls == 1

----------------------------------------------------------------------------
(* Strings that hold references and URLs *)

\* the absent string (a missing `$ref` or `x-resolved-from` key)
NoStr == [form |-> "none", dir |-> ".", file |-> "", frag |-> <<>>]

\* `#/k1/k2/..`
LocalRef(frag) == [form |-> "local", dir |-> ".", file |-> "", frag |-> frag]

\* `file#/..` (dir = ".") or `../dir/file#/..`
RelRef(dir, file, frag) == [form |-> "rel", dir |-> dir, file |-> file, frag |-> frag]

\* `file:///dir/file#/..`
AbsRef(dir, file, frag) == [form |-> "abs", dir |-> dir, file |-> file, frag |-> frag]

\* a string `new URL` rejects with any base, such as `http://`
BadRef == [form |-> "bad", dir |-> ".", file |-> "", frag |-> <<>>]

\* new URL(ref, base): a URL is [dir, file, frag]
NewURL(ref, base) ==
  IF ref.form = "abs" THEN [dir |-> ref.dir, file |-> ref.file, frag |-> ref.frag]
  ELSE IF ref.form = "rel"
       THEN [dir |-> IF ref.dir = "." THEN base.dir ELSE ref.dir,
             file |-> ref.file, frag |-> ref.frag]
       ELSE [dir |-> base.dir, file |-> base.file, frag |-> ref.frag]

\* url.href
Href(u) == AbsRef(u.dir, u.file, u.frag)

\* ApiRefResolver.urlNonFragment
urlNonFragment(u) == [dir |-> u.dir, file |-> u.file, frag |-> <<>>]

\* the key of urlToApiObjectMap and alreadyRewritten: urlNonFragment(url).href
DocKey(u) == [dir |-> u.dir, file |-> u.file]

\* ApiRefResolver.COMPONENT_REGEXP applied to url.hash
IsComponentFragment(frag) == Len(frag) = 3 /\ frag[1] = "components"

\* JsonNavigation.isAtComponent
isAtComponent(nav) == Len(nav) = 3 /\ nav[1] = "components"

\* the URL of the root document (this.url)
RootUrl == [dir |-> "a", file |-> "r", frag |-> <<>>]

----------------------------------------------------------------------------
(* JSON objects *)

\* `const v = e; body(v)`: e is evaluated once and body sees its value
With(e, body(_)) == CHOOSE r \in {body(v) : v \in {e}} : TRUE

\* a JSON object: `$ref`, `x-resolved-from`, `x-resolved-at`, `x__resolved__`,
\* the other scalar-valued keys (a set of [k, v]) and the object-valued keys
\* in insertion order (a sequence of [k, v] with v an object identity).  An array
\* (arr) is an object whose keys are its indices "0", "1", ..: a property name is
\* a string, array[0] and array["0"] are the same member
NewObject == [ref |-> NoStr, from |-> NoStr, at |-> FALSE, marked |-> FALSE,
              sc |-> {}, kids |-> <<>>, arr |-> FALSE]

isRef(n) == n.ref.form # "none"

\* variant: the marker is never seen
isResolvedNever(n) == FALSE

isResolved(n) == n.marked

KidKeys(n) == [i \in 1..Len(n.kids) |-> n.kids[i].k]

HasKid(n, k) == \E i \in 1..Len(n.kids) : n.kids[i].k = k

\* node[k] for an object-valued key, 0 when there is none
Kid(n, k) == IF HasKid(n, k)
             THEN n.kids[CHOOSE i \in 1..Len(n.kids) : n.kids[i].k = k].v
             ELSE 0

\* Object.keys(node)
OwnKeys(n) == {n.kids[i].k : i \in 1..Len(n.kids)} \cup {p.k : p \in n.sc}

\* node[k] = v for an object v
SetKid(n, k, v) ==
  IF HasKid(n, k)
  THEN [n EXCEPT !.kids = [i \in 1..Len(n.kids) |->
                             IF n.kids[i].k = k THEN [k |-> k, v |-> v] ELSE n.kids[i]]]
  ELSE [n EXCEPT !.kids = Append(n.kids, [k |-> k, v |-> v]),
                 !.sc = {p \in n.sc : p.k # k}]

\* the heap with one more object / with the objects of s added
Push(h, n) == [i \in 1..(Len(h) + 1) |-> IF i <= Len(h) THEN h[i] ELSE n]
Concat(h, s) == [i \in 1..(Len(h) + Len(s)) |-> IF i <= Len(h) THEN h[i] ELSE s[i - Len(h)]]

\* jsonPointer.get(document, keys): the identity of the object, 0 when a token is missing
RECURSIVE itemAtPointer(_, _, _)
itemAtPointer(h, id, keys) ==
  IF keys = <<>> THEN id
  ELSE With(Kid(h[id], Head(keys)), LAMBDA v :
         IF v = 0 THEN 0 ELSE itemAtPointer(h, v, Tail(keys)))

\* jsonPointer.get(document, keys) when the item is not an object: the set of the one
\* scalar the keys address, empty when they address an object or nothing
scalarAtPointer(h, id, keys) ==
  IF keys = <<>> THEN {}
  ELSE With(itemAtPointer(h, id, SubSeq(keys, 1, Len(keys) - 1)), LAMBDA p :
         IF p = 0 THEN {} ELSE {q.v : q \in {e \in h[p].sc : e.k = keys[Len(keys)]}})

\* the value of a member that was assigned `undefined`
Undefined == "undefined"

\* node[k] = undefined
SetUndefined(n, k) ==
  [n EXCEPT !.kids = SelectSeq(n.kids, LAMBDA e : e.k # k),
            !.sc = {p \in n.sc : p.k # k} \cup {[k |-> k, v |-> Undefined]}]

\* the objects a walk that starts at the objects of S passes through
RECURSIVE Reach(_, _)
Reach(h, S) ==
  With(S \cup UNION {{h[i].kids[j].v : j \in 1..Len(h[i].kids)} : i \in S}, LAMBDA N :
    IF N = S THEN S ELSE Reach(h, N))

----------------------------------------------------------------------------
(* Source documents: a document text is a tree [ref, sc, kids], kids a     *)
(* sequence of [k, t]; yaml.load builds fresh objects from it.             *)

T(ref, sc, kids) == [ref |-> ref, sc |-> sc, kids |-> kids, arr |-> FALSE]

\* the text of an array of objects and arrays
Arr(items) ==
  [ref |-> NoStr, sc |-> {}, arr |-> TRUE,
   kids |-> [i \in 1..Len(items) |-> [k |-> ToString(i - 1), t |-> items[i]]]]

RECURSIVE TSize(_), KSize(_)
KSize(ks) == IF ks = <<>> THEN 0 ELSE TSize(Head(ks).t) + KSize(Tail(ks))
TSize(t) == 1 + KSize(t.kids)

RECURSIVE KidIds(_, _)
KidIds(ks, id) ==
  IF ks = <<>> THEN <<>>
  ELSE <<[k |-> Head(ks).k, v |-> id]>> \o KidIds(Tail(ks), id + TSize(Head(ks).t))

\* yaml.load(text): the objects of tree t, t itself getting identity id
RECURSIVE yamlLoad(_, _), yamlLoadKids(_, _)
yamlLoadKids(ks, id) ==
  IF ks = <<>> THEN <<>>
  ELSE yamlLoad(Head(ks).t, id) \o yamlLoadKids(Tail(ks), id + TSize(Head(ks).t))
yamlLoad(t, id) ==
  <<[NewObject EXCEPT !.ref = t.ref, !.sc = t.sc, !.kids = KidIds(t.kids, id + 1),
                      !.arr = t.arr]>>
    \o yamlLoadKids(t.kids, id + 1)

----------------------------------------------------------------------------
(* State *)

VARIABLES
  files,      \* the document texts on disk, by DocKey (the input of the run)
  opts,       \* options.conflictStrategy: "error", "rename", "ignore" or "unset"
  heap,       \* the JSON objects created so far, by identity 1..Len(heap)
  root,       \* this.apiDocument (0 before it is read)
  cache,      \* this.urlToApiObjectMap: DocKey -> identity of the document object
  memo,       \* this.resolvedRefToRefMap: reference string -> replacement string
  rewritten,  \* this.alreadyRewritten: [path, fragment], sets of DocKey
  changed,    \* this.changed
  pass,       \* the local `pass` of resolve()
  status,     \* "init", "walking", "done" (resolve returned) or "failed" (it threw)
  stack,      \* the activations of walkObj, outermost first
  err,        \* the message of the error thrown, <<>> when none
  events,     \* history: what each completed visitor call did
  probe       \* a call of the loader or of the pointer conversions, with its result

vars == <<files, opts, heap, root, cache, memo, rewritten, changed, pass, status,
          stack, err, events, probe>>

----------------------------------------------------------------------------
(* The operations of ApiRefResolver on the heap *)

\* tag(item, normalizedRefUrl, tagDateTime)
tag(h, id, url, tagDateTime) ==
  IF id = 0 THEN h
  ELSE [h EXCEPT ![id].from = Href(url),
                 ![id].at = IF tagDateTime THEN TRUE ELSE @,
                 ![id].marked = TRUE]

\* variant: { ...refProperties, ...apiDocument }, the document winning
mergeRefObjectUnder(r, a) ==
  [ref    |-> a.ref,
   from   |-> IF a.from # NoStr THEN a.from ELSE r.from,
   at     |-> r.at \/ a.at,
   marked |-> r.marked \/ a.marked,
   arr    |-> FALSE,
   sc     |-> {p \in r.sc : p.k \notin OwnKeys(a)} \cup a.sc,
   kids   |-> Concat(SelectSeq(r.kids, LAMBDA e : e.k \notin OwnKeys(a)), a.kids)]

\* mergeRefObject(refObject, apiDocument) for an apiDocument that is not an object:
\* `return;`, the caller gets undefined (0, the identity of no object)
mergeRefScalar(r, scalar) == 0

\* mergeRefObject(refObject, apiDocument) for an object or array apiDocument:
\* { ...apiDocument, ...refProperties } with refProperties = refObject less `$ref`;
\* the spread of an array is an object with the indices as keys
mergeRefObject(r, a) ==
  LET rsc   == {p.k : p \in r.sc}
      aKept == SelectSeq(a.kids, LAMBDA e : e.k \notin rsc)
      rNew  == SelectSeq(r.kids, LAMBDA e : ~HasKid(a, e.k))
  IN [ref    |-> a.ref,
      from   |-> IF r.from # NoStr THEN r.from ELSE a.from,
      at     |-> r.at \/ a.at,
      marked |-> r.marked \/ a.marked,
      arr    |-> FALSE,
      sc     |-> {p \in a.sc : p.k \notin OwnKeys(r)} \cup r.sc,
      kids   |-> Concat([i \in 1..Len(aKept) |->
                    IF HasKid(r, aKept[i].k)
                    THEN [k |-> aKept[i].k, v |-> Kid(r, aKept[i].k)]
                    ELSE aKept[i]], rNew)]

\* variant: no document is remembered as rewritten
areRefsNeverRewritten(rw, url, what) == FALSE

\* areRefsAlreadyRewritten(nonFragmentUrl, what): the map of `what` has the document
areRefsAlreadyRewritten(rw, url, what) == DocKey(url) \in rw[what]

\* variant: the references of the document are left as they are written
rewriteRefPathsNone(h, apiId, docUrl) == h

\* the visitor of rewriteRefPaths applied to every reference object visitRefObjects
\* hands it: node.$ref = new URL(node.$ref, nonFragmentUrl).href
rewriteRefPaths(h, apiId, docUrl) ==
  With(Reach(h, {apiId}), LAMBDA R :
    [i \in 1..Len(h) |->
        IF i \in R /\ isRef(h[i]) /\ ~isResolved(h[i])
        THEN [h[i] EXCEPT !.ref = Href(NewURL(h[i].ref, urlNonFragment(docUrl)))]
        ELSE h[i]])

\* the visitor of rewriteRefFragments: a `#..` reference gets the prefix nav.asFragment()
rewriteRefFragments(h, apiId, nav) ==
  With(Reach(h, {apiId}), LAMBDA R :
    [i \in 1..Len(h) |->
        IF i \in R /\ isRef(h[i]) /\ ~isResolved(h[i]) /\ h[i].ref.form = "local"
        THEN [h[i] EXCEPT !.ref = LocalRef(nav \o h[i].ref.frag)]
        ELSE h[i]])

\* api(uri) up to its first await: the document urlToApiObjectMap holds for the
\* URL, 0 when it holds none and the text is about to be read
apiCached(c, url) == IF DocKey(url) \in DOMAIN c THEN c[DocKey(url)] ELSE 0

\* api(uri) from its first await, `cached` being what the lookup before it gave: the
\* cached document, or the text read, parsed and stored in urlToApiObjectMap now
api(h, c, url, cached) ==
  LET dk == DocKey(url)
      id == Len(h) + 1
  IN IF cached # 0
     THEN [ok |-> TRUE, heap |-> h, cache |-> c, api |-> cached, read |-> FALSE]
     ELSE IF dk \in DOMAIN files
          THEN [ok |-> TRUE, heap |-> Concat(h, yamlLoad(files[dk], id)),
                cache |-> (dk :> id) @@ c, api |-> id, read |-> TRUE]
          ELSE [ok |-> FALSE, heap |-> h, cache |-> c, api |-> 0, read |-> TRUE]

\* `${componentName}${suffix}`, the name itself for suffix 0
CandidateName(name, suffix) == IF suffix = 0 THEN name ELSE name \o ToString(suffix)

\* the rename loop of checkComponentConflict: the first candidate that is not an own
\* key of the object the loop tests
firstFreeName(keys, name) ==
  LET n == CHOOSE n \in 0..Cardinality(keys) :
             /\ CandidateName(name, n) \notin keys
             /\ \A m \in 0..(n - 1) : CandidateName(name, m) \in keys
  IN CandidateName(name, n)

\* variant: the rename loop tests the own keys of the section
renameScopeSection(h, componentsId, sectionId) == OwnKeys(h[sectionId])

\* the object whose own keys the rename loop tests: `components`
renameScope(h, componentsId, sectionId) == OwnKeys(h[componentsId])

\* node[k] = {} when node[k] is missing
ensureKid(h, id, k) ==
  IF Kid(h[id], k) # 0 THEN h
  ELSE Push([h EXCEPT ![id] = SetKid(h[id], k, Len(h) + 1)], NewObject)

\* the message of the error thrown on a conflict under the `error` strategy
conflictMessage(componentKeys) == <<"Cannot embed component ">>

\* what the `ignore` and the no-conflict exits of checkComponentConflict return
keepName(componentName) == componentName

\* checkComponentConflict(refObject, componentKeys, urlNoFragment)
checkComponentConflict(h, rootId, refId, componentKeys, urlNoFragment) ==
  With(ensureKid(h, rootId, "components"), LAMBDA h1 :
  With(Kid(h1[rootId], "components"), LAMBDA components :
  With(ensureKid(h1, components, componentKeys[2]), LAMBDA h2 :
  With(Kid(h2[components], componentKeys[2]), LAMBDA section :
  With(Kid(h2[section], componentKeys[3]), LAMBDA existing :
    LET componentName  == componentKeys[3]
        resolvedFrom   == IF existing = 0 THEN NoStr ELSE h2[existing].from
        sameResolution == resolvedFrom = Href(urlNoFragment)
        out(ok, name) == [ok |-> ok, heap |-> h2, section |-> section, name |-> name,
                          existing |-> existing, same |-> sameResolution]
    IN IF existing = 0 THEN out(TRUE, keepName(componentName))
       ELSE IF existing = refId THEN out(TRUE, keepName(componentName))
       ELSE IF ~sameResolution /\ opts = "error" THEN out(FALSE, componentName)
       ELSE IF opts = "ignore" THEN out(TRUE, keepName(componentName))
       ELSE out(TRUE, firstFreeName(renameScope(h2, components, section),
                                    componentName)))))))

----------------------------------------------------------------------------
(* The three inliners.  Each takes the state it reads and returns the state it  *)
(* leaves, the item the visitor returns (res) and a record of what it did.      *)

NoUrl == [dir |-> ".", file |-> "", frag |-> <<>>]

Ev(kind, node, nav, ref, url, res, item, name, existing, conflict) ==
  [kind |-> kind, node |-> node, nav |-> nav, ref |-> ref, url |-> url, res |-> res,
   item |-> item, name |-> name, existing |-> existing, conflict |-> conflict]

Thrown(msg, h, c, m, rw) ==
  [ok |-> FALSE, err |-> msg, heap |-> h, cache |-> c, memo |-> m, rewritten |-> rw,
   res |-> 0, ev |-> Ev("throw", 0, <<>>, NoStr, NoUrl, 0, 0, "", 0, FALSE)]

Returned(h, c, m, rw, res, ev) ==
  [ok |-> TRUE, err |-> <<>>, heap |-> h, cache |-> c, memo |-> m, rewritten |-> rw,
   res |-> res, ev |-> ev]

\* the replacement remembered for a component reference: nav.asFragment()
componentResolvedRef(nav, componentKeys) == LocalRef(nav)

\* the branch of processComponentReplacement taken at a component slot
\* (nav.isAtComponent()): TRUE when the item replaces the node
replacesNode(nav) == isAtComponent(nav)

\* processComponentReplacement(normalizedRefUrl, refObject, nav), from `await this.api`
processComponentReplacement(h, c, m, rw, rootId, refId, nav, ref, url, cached) ==
  With(api(h, c, url, cached), LAMBDA a :
  With(IF a.ok THEN itemAtPointer(a.heap, a.api, url.frag) ELSE 0, LAMBDA item :
  With(IF ~a.ok \/ areRefsAlreadyRewritten(rw, url, "path") THEN a.heap
       ELSE rewriteRefPaths(a.heap, a.api, urlNonFragment(url)), LAMBDA h1 :
  With(tag(h1, item, url, FALSE), LAMBDA h2 :
  With(IF item = 0 THEN [ok |-> FALSE]
       ELSE checkComponentConflict(h2, rootId, refId, url.frag, urlNonFragment(url)),
       LAMBDA cc :
    LET reference == Href(url)
        rw1  == [rw EXCEPT !.path = @ \cup {DocKey(url)}]
        m1   == (reference :> componentResolvedRef(nav, url.frag)) @@ m
        h3   == cc.heap
        component == Kid(h3[cc.section], cc.name)
        newId     == Len(h3) + 1
        conflict  == cc.existing # 0 /\ cc.existing # refId /\ ~cc.same
        ev(kind, res) ==
          Ev(kind, refId, nav, ref, url, res, item, cc.name, cc.existing, conflict)
    IN IF ~a.ok THEN Thrown(<<"ENOENT">>, h, c, m, rw)
       ELSE IF item = 0 THEN Thrown(<<"Invalid reference token">>, a.heap, a.cache, m, rw)
       ELSE IF reference \in DOMAIN m
            THEN Thrown(<<"ref already has a replacement">>, h2, a.cache, m, rw1)
       ELSE IF ~cc.ok THEN Thrown(conflictMessage(url.frag), h3, a.cache, m1, rw1)
       ELSE IF replacesNode(nav)
            THEN IF component # 0 /\ isRef(h3[component])
                 THEN Returned(Push([h3 EXCEPT ![cc.section] =
                                           SetKid(h3[cc.section], cc.name, newId)],
                                    mergeRefObject(h3[refId], h3[item])),
                               a.cache, m1, rw1, newId, ev("slot-merge", newId))
                 ELSE Returned([h3 EXCEPT ![cc.section] =
                                      SetKid(h3[cc.section], cc.name, item)],
                               a.cache, m1, rw1, item, ev("slot-item", item))
            ELSE Returned([[h3 EXCEPT ![cc.section] = SetKid(h3[cc.section], cc.name, item)]
                              EXCEPT ![refId].ref =
                                 LocalRef(<<"components", url.frag[2], cc.name>>)],
                          a.cache, m1, rw1, refId, ev("inject", refId)))))))

\* processFullReplacement(normalizedRefUrl, refObject, nav), from `await this.api`
processFullReplacement(h, c, m, rw, rootId, refId, nav, ref, url, cached) ==
  With(api(h, c, url, cached), LAMBDA a :
  With(IF ~a.ok \/ areRefsAlreadyRewritten(rw, url, "fragment") THEN a.heap
       ELSE rewriteRefFragments(a.heap, a.api, nav), LAMBDA h1 :
  With(IF ~a.ok \/ areRefsAlreadyRewritten(rw, url, "path") THEN h1
       ELSE rewriteRefPaths(h1, a.api, url), LAMBDA h2 :
  With(IF ~a.ok THEN h2 ELSE Push(h2, mergeRefObject(h2[refId], h2[a.api])), LAMBDA h3 :
    LET reference == Href(url)
        dk  == DocKey(url)
        m1  == (reference :> LocalRef(nav)) @@ m
        rw1 == [path |-> rw.path \cup {dk}, fragment |-> rw.fragment \cup {dk}]
        newId == Len(h3)
    IN IF ~a.ok THEN Thrown(<<"ENOENT">>, h, c, m, rw)
       ELSE IF reference \in DOMAIN m
            THEN Thrown(<<"ref already has a replacement">>, a.heap, a.cache, m, rw)
       ELSE Returned(tag(h3, newId, url, FALSE), a.cache, m1, rw1, newId,
                     Ev("full", refId, nav, ref, url, newId, a.api, "", 0, FALSE))))))

\* processOtherReplacement(normalizedRefUrl, refObject, reference), from `await this.api`
processOtherReplacement(h, c, m, rw, rootId, refId, nav, ref, url, cached) ==
  With(api(h, c, url, cached), LAMBDA a :
  With(IF a.ok THEN itemAtPointer(a.heap, a.api, url.frag) ELSE 0, LAMBDA item :
  With(IF a.ok THEN scalarAtPointer(a.heap, a.api, url.frag) ELSE {}, LAMBDA scalar :
  With(IF ~a.ok \/ areRefsAlreadyRewritten(rw, url, "path") THEN a.heap
       ELSE rewriteRefPaths(a.heap, a.api, urlNonFragment(url)), LAMBDA h1 :
  With(tag(h1, item, url, FALSE), LAMBDA h2 :
    LET rw1   == [rw EXCEPT !.path = @ \cup {DocKey(url)}]
        m1    == (ref :> LocalRef(url.frag)) @@ m
        newId == Len(h2) + 1
    IN IF ~a.ok THEN Thrown(<<"ENOENT">>, h, c, m, rw)
       ELSE IF item = 0 /\ scalar = {}
            THEN Thrown(<<"Invalid reference token">>, a.heap, a.cache, m, rw)
       ELSE IF ref \in DOMAIN m
            THEN Thrown(<<"ref already has a replacement">>, h1, a.cache, m, rw1)
       ELSE IF item = 0
            THEN Returned(h2, a.cache, m1, rw1, mergeRefScalar(h2[refId], scalar),
                          Ev("other", refId, nav, ref, url, 0, 0, "", 0, FALSE))
       ELSE Returned(Push(h2, mergeRefObject(h2[refId], h2[item])), a.cache, m1, rw1, newId,
                     Ev("other", refId, nav, ref, url, newId, item, "", 0, FALSE)))))))

----------------------------------------------------------------------------
(* The visitor, up to its first await *)

\* variant: without the COMPONENT_REGEXP test
classifyNoComponent(url) == IF url.frag = <<>> THEN "full" ELSE "other"

\* which inliner refResolvingVisitor hands the normalized URL to
classify(url) ==
  IF url.frag = <<>> THEN "full"
  ELSE IF IsComponentFragment(url.frag) THEN "component" ELSE "other"

\* variant: no reference passes the test
isLocalNever(ref) == ref.form = "none"

\* the `ref.startsWith('#')` test of refResolvingVisitor
isLocal(ref) == ref.form = "local"

\* variant: the node is replaced by a bare reference object
replaceRefBare(h, id, replacement) == [h EXCEPT ![id] = [NewObject EXCEPT !.ref = replacement]]

\* `refObject.$ref = replacementRef` / `refObject.$ref = seen`
replaceRef(h, id, replacement) == [h EXCEPT ![id].ref = replacement]

\* visitRefObjects' objectVisitor with refResolvingVisitor, up to `await this.api(..)`:
\* the object left in place, or the inliner that is now waiting for the document
refResolvingVisitor(h, m, id, nav) ==
  LET n    == h[id]
      ref  == n.ref
      url  == NewURL(ref, RootUrl)
      kind == classify(url)
      key  == IF kind = "other" THEN ref ELSE Href(url)
      out(hh, ch, cb, k, ev) ==
        [heap |-> hh, touched |-> ch, cb |-> cb, kind |-> k, url |-> url, ev |-> ev]
  IN IF ~isRef(n) \/ isResolved(n) THEN out(h, FALSE, "done", "none", <<>>)
     ELSE IF isLocal(ref) THEN out(h, FALSE, "done", "none", <<>>)
     ELSE IF ref \in DOMAIN m
          THEN out(replaceRef(h, id, m[ref]), FALSE, "done", "none",
                   <<Ev("memo", id, nav, ref, url, id, 0, "", 0, FALSE)>>)
     ELSE IF ref = BadRef
          THEN out(h, TRUE, "failed", "none",
                   <<Ev("throw", id, nav, ref, NoUrl, 0, 0, "Invalid URL", 0, FALSE)>>)
     ELSE IF key \in DOMAIN m
          THEN out(replaceRef(h, id, m[key]), TRUE, "done", "none",
                   <<Ev("seen", id, nav, ref, url, id, 0, "", 0, FALSE)>>)
     ELSE out(h, TRUE, "pending", kind, <<>>)

\* the activation of walkObj(node, location) once the callback has been called: the
\* keys copied, the state of the callback's promise (cb, with res or err), and for a
\* callback waiting in an inliner what api() found in urlToApiObjectMap when called
Frame(h, c, m, id, nav) ==
  LET v == refResolvingVisitor(h, m, id, nav)
  IN [node |-> id, nav |-> nav, keys |-> KidKeys(v.heap[id]), idx |-> 1,
      cb |-> v.cb, res |-> id, err |-> IF v.cb = "failed" THEN <<"Invalid URL">> ELSE <<>>,
      kind |-> v.kind, url |-> v.url,
      ref |-> h[id].ref,
      cached |-> IF v.cb = "pending" THEN apiCached(c, v.url) ELSE 0]

----------------------------------------------------------------------------
(* Actions *)

Top == stack[Len(stack)]

\* history: the visitor call of activation f threw the error msg
Throw(f, msg) == Ev("throw", f.node, f.nav, f.ref, f.url, 0, 0, msg[1], 0, FALSE)

\* history: readFromFile / readFromUrl was called for the document of url
Fetch(url) == Ev("read", 0, <<>>, NoStr, urlNonFragment(url), 0, 0, "", 0, FALSE)

\* resolve() returned this.apiDocument as it is, because it is resolved already
AlreadyResolved == Ev("resolved", 0, <<>>, NoStr, RootUrl, 0, 0, "", 0, FALSE)

\* the calls of resolve() that returned the document without resolving it
EarlyReturns == Cardinality({i \in 1..Len(events) : events[i].kind = "resolved"})

\* variant: the document is resolved whatever it carries
alreadyResolvedNever(n) == FALSE

\* this.apiDocument['x-resolved-from']
alreadyResolved(n) == n.from # NoStr

\* resolve(options) up to the driver loop.  The root document is read unless the
\* resolver has it, from the constructor or from an earlier call; a document that
\* carries x-resolved-from is returned as it is, any other is stored in
\* urlToApiObjectMap under this.url.href and the driver loop starts.  The caller calls
\* resolve() again only after it returned the document, and with the same options.
Resolve ==
  /\ \/ status = "init"
     \/ status = "done" /\ EarlyReturns < MaxCalls
  /\ \E a \in {IF root = 0 THEN api(heap, cache, RootUrl, apiCached(cache, RootUrl))
                 ELSE [ok |-> TRUE, heap |-> heap, cache |-> cache, api |-> root,
                       read |-> FALSE]} :
        IF ~a.ok
        THEN /\ status' = "failed"
             /\ err' = <<"ENOENT">>
             /\ events' = Append(events, Fetch(RootUrl))
             /\ UNCHANGED <<heap, root, cache, changed, pass>>
        ELSE /\ heap' = a.heap
             /\ root' = a.api
             /\ err' = <<>>
             /\ IF alreadyResolved(a.heap[a.api])
                THEN /\ status' = "done"
                     /\ cache' = a.cache
                     /\ events' = events \o (IF a.read THEN <<Fetch(RootUrl)>> ELSE <<>>)
                                         \o <<AlreadyResolved>>
                     /\ UNCHANGED <<changed, pass>>
                ELSE /\ status' = "walking"
                     /\ cache' = (DocKey(RootUrl) :> a.api) @@ a.cache
                     /\ changed' = TRUE
                     /\ pass' = 0
                     /\ events' = events \o (IF a.read THEN <<Fetch(RootUrl)>> ELSE <<>>)
  /\ UNCHANGED <<probe, files, opts, memo, rewritten, stack>>

\* `pass = pass + 1` in the driver loop, as an entry of the event log
PassStarted == Ev("pass", 0, <<>>, NoStr, NoUrl, 0, 0, "", 0, FALSE)

setChangedLast(c, touched) == touched

\* `this.changed = true` in the visitor, reached only by a call that goes on to an
\* inliner: the flag, once set in a pass, stays set until the driver resets it
setChanged(c, touched) == c \/ touched

\* one iteration of `while (this.changed)`: visitRefObjects enters walkObj on the root
BeginPass ==
  /\ status = "walking"
  /\ stack = <<>>
  /\ changed
  /\ pass < MaxPass
  /\ pass' = pass + 1
  /\ \E v \in {refResolvingVisitor(heap, memo, root, <<>>)} :
        /\ heap' = v.heap
        /\ changed' = setChanged(FALSE, v.touched)
        /\ stack' = <<Frame(heap, cache, memo, root, <<>>)>>
        /\ events' = events \o <<PassStarted>> \o v.ev
  /\ UNCHANGED <<probe, files, opts, root, cache, memo, rewritten, status, err>>

\* variant: the location handed on is the location of the parent
withSame(nav, key) == nav

\* nav.with(key): a new location with `key` appended to the keys of this one
with(nav, key) == Append(nav, key)

\* one iteration of walkObj's loop over the keys copied on entry: when node[key] is an
\* object, walkObj is entered on it and calls the callback, which runs up to its first
\* await; otherwise the loop moves on.  An array is walked by walkArray, index by
\* index: it enters walkObj on every element that is an object or an array (an array
\* is an object to `typeof`), and the callback leaves an array as it is
Visit ==
  /\ status = "walking"
  /\ stack # <<>>
  /\ Top.idx <= Len(Top.keys)
  /\ Len(stack) < MaxDepth
  /\ \E val \in {Kid(heap[Top.node], Top.keys[Top.idx])} :
        IF val = 0
        THEN /\ stack' = [stack EXCEPT ![Len(stack)].idx = @ + 1]
             /\ UNCHANGED <<heap, changed, events>>
        ELSE LET nav == with(Top.nav, Top.keys[Top.idx])
             IN \E v \in {refResolvingVisitor(heap, memo, val, nav)} :
                  /\ heap' = v.heap
                  /\ changed' = setChanged(changed, v.touched)
                  /\ stack' = Append(stack, Frame(heap, cache, memo, val, nav))
                  /\ events' = events \o v.ev
  /\ UNCHANGED <<probe, files, opts, root, cache, memo, rewritten, pass, status,
                 err>>

\* the inliner a visitor call is waiting in runs from `await this.api(..)` to its
\* return or throw, which settles the promise the callback returned
Inline(i) ==
  /\ status = "walking"
  /\ i \in 1..Len(stack)
  /\ stack[i].cb = "pending"
  /\ \E r \in {LET f == stack[i]
                  IN IF f.kind = "full"
                     THEN processFullReplacement(heap, cache, memo, rewritten, root,
                                                 f.node, f.nav, f.ref, f.url, f.cached)
                     ELSE IF f.kind = "component"
                     THEN processComponentReplacement(heap, cache, memo, rewritten, root,
                                                      f.node, f.nav, f.ref, f.url, f.cached)
                     ELSE processOtherReplacement(heap, cache, memo, rewritten, root,
                                                  f.node, f.nav, f.ref, f.url, f.cached)} :
        /\ heap' = r.heap
        /\ cache' = r.cache
        /\ memo' = r.memo
        /\ rewritten' = r.rewritten
        /\ events' = events \o (IF stack[i].cached = 0 THEN <<Fetch(stack[i].url)>> ELSE <<>>)
                            \o <<IF r.ok THEN r.ev ELSE Throw(stack[i], r.err)>>
        /\ stack' = IF r.ok THEN [stack EXCEPT ![i].cb = "done", ![i].res = r.res]
                            ELSE [stack EXCEPT ![i].cb = "failed", ![i].err = r.err]
  /\ UNCHANGED <<probe, files, opts, root, changed, pass, status, err>>

\* variant: a rejected promise is taken for a fulfilled one
rejectedNever(f) == FALSE

\* the promise the callback of activation f returned is rejected
rejected(f) == f.cb = "failed"

\* walkObj returns the promise of the callback.  Fulfilled, the caller stores its value:
\* node[key] = await walkObj(..).  Rejected, the await throws in every caller up to
\* resolve(), which rejects with the error.
Return ==
  /\ status = "walking"
  /\ stack # <<>>
  /\ Top.idx > Len(Top.keys)
  /\ Top.cb \in {"done", "failed"}
  /\ IF rejected(Top)
     THEN /\ status' = "failed"
          /\ err' = Top.err
          /\ UNCHANGED <<heap, root, stack>>
     ELSE IF Len(stack) = 1
     THEN /\ root' = Top.res
          /\ stack' = <<>>
          /\ UNCHANGED <<heap, status, err>>
     ELSE LET parent == stack[Len(stack) - 1]
              key    == Top.nav[Len(Top.nav)]
          IN /\ heap' = [heap EXCEPT ![parent.node] =
                                       IF Top.res = 0 THEN SetUndefined(heap[parent.node], key)
                                       ELSE SetKid(heap[parent.node], key, Top.res)]
             /\ stack' = [SubSeq(stack, 1, Len(stack) - 1)
                            EXCEPT ![Len(stack) - 1].idx = @ + 1]
             /\ UNCHANGED <<root, status, err>>
  /\ UNCHANGED <<probe, files, opts, cache, memo, rewritten, changed, pass, events>>

\* variant: the marker is deleted from the root object only
cleanupRootOnly(h, id) == [h EXCEPT ![id].marked = FALSE]

\* cleanup(resolved): the walk deletes x__resolved__ from every object it passes
cleanup(h, id) ==
  With(Reach(h, {id}), LAMBDA R :
    [i \in 1..Len(h) |-> IF i \in R THEN [h[i] EXCEPT !.marked = FALSE] ELSE h[i]])

\* the driver loop ends after a pass that left this.changed false: tag, cleanup, return
Finish ==
  /\ status = "walking"
  /\ stack = <<>>
  /\ ~changed
  /\ heap' = With(tag(heap, root, RootUrl, TRUE), LAMBDA h : cleanup(h, root))
  /\ status' = "done"
  /\ UNCHANGED <<probe, files, opts, root, cache, memo, rewritten, changed, pass, stack,
                 err,
                 events>>

----------------------------------------------------------------------------
(* The loader and the JSON Pointer conversions, on strings of characters *)

\* the longest member name and the longest key sequence tried
MaxChars == 2
MaxKeys == 2

Digits == <<"0", "1", "2", "3", "4", "5", "6", "7", "8", "9">>

IsDigit(c) == \E i \in 1..10 : Digits[i] = c

\* a key of a navigation path: a string (a sequence of characters) or a number
StrKey(s) == [num |-> FALSE, n |-> 0, s |-> s]
NumKey(n) == [num |-> TRUE, n |-> n, s |-> <<>>]

\* number.toString()
RECURSIVE toString(_)
toString(n) ==
  IF n < 10 THEN <<Digits[n + 1]>>
  ELSE Append(toString(n \div 10), Digits[(n % 10) + 1])

\* parseInt(key) for a key of digits
RECURSIVE parseInt(_)
parseInt(s) ==
  IF s = <<>> THEN 0
  ELSE parseInt(SubSeq(s, 1, Len(s) - 1)) * 10
       + (CHOOSE i \in 1..10 : Digits[i] = s[Len(s)]) - 1

\* str.replace(/ab/g, by) for a pattern of the two characters a, b
RECURSIVE replaceAll(_, _, _, _)
replaceAll(s, a, b, by) ==
  IF s = <<>> THEN <<>>
  ELSE IF Len(s) >= 2 /\ s[1] = a /\ s[2] = b
       THEN by \o replaceAll(SubSeq(s, 3, Len(s)), a, b, by)
       ELSE <<s[1]>> \o replaceAll(Tail(s), a, b, by)

\* json-pointer's escape(str): str.toString().replace(/~/g, '~0').replace(/\//g, '~1')
RECURSIVE escape(_)
escape(s) ==
  IF s = <<>> THEN <<>>
  ELSE (IF Head(s) = "~" THEN <<"~", "0">>
        ELSE IF Head(s) = "/" THEN <<"~", "1">>
        ELSE <<Head(s)>>) \o escape(Tail(s))

\* json-pointer's unescape(str): str.replace(/~1/g, '/').replace(/~0/g, '~')
unescape(s) == replaceAll(replaceAll(s, "~", "1", <<"/">>), "~", "0", <<"~">>)

\* the property name a key stands for in node[key]
propertyName(k) == IF k.num THEN toString(k.n) ELSE k.s

\* jsonPointer.compile(keys)
RECURSIVE compile(_)
compile(keys) ==
  IF keys = <<>> THEN <<>>
  ELSE <<"/">> \o escape(propertyName(Head(keys))) \o compile(Tail(keys))

\* str.split('/')
RECURSIVE split(_, _)
split(s, acc) ==
  IF s = <<>> THEN <<acc>>
  ELSE IF Head(s) = "/" THEN <<acc>> \o split(Tail(s), <<>>)
  ELSE split(Tail(s), Append(acc, Head(s)))

\* jsonPointer.parse(pointer), for '' or a pointer that starts with '/'
parse(pointer) ==
  IF pointer = <<>> THEN <<>>
  ELSE LET tokens == split(Tail(pointer), <<>>)
       IN [i \in 1..Len(tokens) |-> unescape(tokens[i])]

\* JsonNavigation.asFragment(keys, withHash)
asFragment(keys, withHash) ==
  IF withHash THEN <<"#">> \o compile(keys) ELSE compile(keys)

\* JsonNavigation.asKeys(fragment): a key that matches /^\d+$/ becomes a number
asKeys(fragment) ==
  LET keys == parse(Tail(fragment))
  IN [i \in 1..Len(keys) |->
        IF keys[i] # <<>> /\ \A j \in 1..Len(keys[i]) : IsDigit(keys[i][j])
        THEN NumKey(parseInt(keys[i]))
        ELSE StrKey(keys[i])]

\* readFromUrl(url): url.protocol === 'http' ? require('http') : require('https')
client(protocol) == IF protocol = "http" THEN "http" ELSE "https"

\* api(uri), the read of a document that is not cached:
\* url.protocol === 'file:' ? readFromFile(url) : readFromUrl(url)
reader(protocol) == IF protocol = "file:" THEN "fs" ELSE client(protocol)

\* url.protocol of a WHATWG URL: the scheme with its colon
Protocols == {"file:", "http:", "https:"}

\* the member names tried: every string of up to MaxChars of these characters, and
\* two component names made of digits
Chars == {"0", "4", "7", "a", "/", "~"}
Names ==
  UNION {[1..n -> Chars] : n \in 0..MaxChars}
  \cup {<<"4", "0", "4">>, <<"0", "0", "7">>}

Keys == {StrKey(s) : s \in Names} \cup {NumKey(n) : n \in {0, 7, 40, 404}}

KeySeqs == UNION {[1..n -> Keys] : n \in 0..MaxKeys}

\* the tokens of the fragments tried, as written (escaped)
Tokens ==
  UNION {[1..n -> {"0", "4", "7", "a"}] : n \in 0..MaxChars}
  \cup {<<"4", "0", "4">>, <<"0", "0", "7">>, <<"~", "0">>, <<"~", "1">>,
        <<"~", "0", "1">>, <<"a", "~", "1">>}

RECURSIVE join(_)
join(tokens) == IF tokens = <<>> THEN <<>> ELSE <<"/">> \o Head(tokens) \o join(Tail(tokens))

Fragments == {<<"#">> \o join(ts) : ts \in UNION {[1..n -> Tokens] : n \in 0..MaxKeys}}

Probe(op, protocol, keys, fragment) ==
  [op |-> op, called |-> FALSE, protocol |-> protocol, reader |-> "",
   keys |-> keys, fragment |-> fragment, outKeys |-> <<>>, outFragment |-> <<>>]

\* no call
Idle == Probe("none", "", <<>>, <<>>)

----------------------------------------------------------------------------
(* Inputs *)

S(k, v) == [k |-> k, v |-> v]
K(k, t) == [k |-> k, t |-> t]

Plain(title) == T(NoStr, {S("title", title)}, <<>>)
Ref(ref) == T(ref, {}, <<>>)
RefWith(ref, description) == T(ref, {S("description", description)}, <<>>)
Holder(title, k, t) == T(NoStr, {S("title", title)}, <<K(k, t)>>)
RefOver(ref, k, t) == T(ref, {}, <<K(k, t)>>)

Comp(section, name) == <<"components", section, name>>

\* the key of a document in directory d
Doc(d, f) == [dir |-> d, file |-> f]

\* ../b/b: an operation, and components of several shapes
DocB ==
  T(NoStr, {S("title", "B")},
    <<K("paths", T(NoStr, {}, <<K("health", Holder("B op", "schema",
                                  Ref(LocalRef(Comp("schemas", "health")))))>>)),
      K("components", T(NoStr, {}, <<K("schemas", T(NoStr, {},
          <<K("health", Plain("B health")),
            K("thing", Holder("B thing", "base", Ref(RelRef("c", "c", Comp("schemas", "base"))))),
            K("fwd", Ref(RelRef("c", "c", Comp("schemas", "base")))),
            K("B", Holder("B B", "a", Ref(RelRef("a", "r", Comp("schemas", "A"))))),
            K("pct", Holder("B pct", "of", Ref(RelRef(".", "range", <<"low">>))))>>))>>))>>)

\* ../c/c: components only
DocC ==
  T(NoStr, {S("title", "C")},
    <<K("components", T(NoStr, {}, <<K("schemas", T(NoStr, {},
          <<K("health", Plain("C health")),
            K("base", Plain("C base"))>>))>>))>>)

\* ../b/range: a schema file with a local reference; ../b/percent: one with a
\* reference to a file of its own directory
DocRange == T(NoStr, {S("title", "range")},
              <<K("low", Plain("low")), K("high", Ref(LocalRef(<<"low">>)))>>)
DocPercent == T(NoStr, {S("title", "percent")},
                <<K("of", Ref(RelRef(".", "range", <<"low">>)))>>)

\* ../b/list: a document with an array
DocList == T(NoStr, {S("title", "list")},
             <<K("items", Arr(<<Plain("one"), Plain("two")>>))>>)

\* ../b/loop: a document that refers back to the whole root document
DocLoop == T(NoStr, {S("title", "loop")}, <<K("back", Ref(RelRef("a", "r", <<>>)))>>)

BHealth == RelRef("b", "b", Comp("schemas", "health"))
CHealth == RelRef("c", "c", Comp("schemas", "health"))
BThing  == RelRef("b", "b", Comp("schemas", "thing"))
BFwd    == RelRef("b", "b", Comp("schemas", "fwd"))
BB      == RelRef("b", "b", Comp("schemas", "B"))
BPct    == RelRef("b", "b", Comp("schemas", "pct"))

\* what the root document has at paths/p1 and paths/p2
Sites ==
  { Plain("op"),
    Ref(LocalRef(Comp("schemas", "A"))),
    Holder("op", "schema", Ref(LocalRef(Comp("schemas", "health")))),
    Ref(BHealth),
    RefWith(BHealth, "X"),
    Ref(CHealth),
    Ref(BThing),
    Ref(BFwd),
    Ref(BB),
    Ref(RelRef("b", "b", <<"paths", "health">>)),
    RefWith(RelRef("b", "b", <<"paths", "health">>), "X"),
    Ref(RelRef("b", "b", <<"paths", "health", "schema">>)),
    Ref(RelRef("b", "range", <<>>)),
    Ref(RelRef("b", "range", <<"low">>)),
    Ref(RelRef("b", "percent", <<>>)),
    RefOver(BHealth, "example", Ref(RelRef("c", "c", Comp("schemas", "base")))),
    RefOver(BHealth, "example", Ref(BHealth)),
    RefOver(RelRef("b", "b", <<"paths", "health">>), "example", Ref(BPct)),
    T(RelRef("b", "percent", <<>>), {S("title", "mine"), S("description", "X")}, <<>>),
    RefOver(RelRef("b", "percent", <<>>), "example", Ref(RelRef("b", "percent", <<>>))),
    Ref(RelRef("b", "loop", <<>>)),
    Ref(RelRef("b", "gone", Comp("schemas", "health"))),
    RefOver(RelRef("b", "gone", Comp("schemas", "health")), "example", Ref(BHealth)),
    Ref(BadRef) }

\* what the root document has under components/schemas (nothing: no components at all)
Slots ==
  { <<>>,
    <<K("A", Plain("R A"))>>,
    <<K("health", Plain("R health"))>>,
    <<K("health", Ref(BHealth))>>,
    <<K("health", RefWith(BHealth, "Z"))>>,
    <<K("alias", Ref(BHealth))>>,
    <<K("alias", RefWith(BHealth, "Y"))>>,
    <<K("fwd", Ref(BFwd))>>,
    <<K("A", Holder("R A", "b", Ref(BB)))>> }

RootDoc(s1, s2, slots) ==
  T(NoStr, {S("title", "R")},
    <<K("paths", T(NoStr, {}, <<K("p1", s1), K("p2", s2)>>))>>
    \o IF slots = <<>> THEN <<>>
       ELSE <<K("components", T(NoStr, {}, <<K("schemas", T(NoStr, {}, slots))>>))>>)

Disk(rootDoc) ==
  (Doc("a", "r") :> rootDoc) @@ (Doc("b", "b") :> DocB) @@ (Doc("c", "c") :> DocC)
  @@ (Doc("b", "range") :> DocRange) @@ (Doc("b", "percent") :> DocPercent)
  @@ (Doc("b", "loop") :> DocLoop) @@ (Doc("b", "list") :> DocList)

\* sites tried on their own: a reference inside an array nested in an array, and
\* references to an array and to a string
ArraySites ==
  { Holder("op", "parameters", Arr(<<Arr(<<Ref(BHealth)>>)>>)),
    Ref(RelRef("b", "list", <<"items">>)),
    RefWith(RelRef("b", "list", <<"items">>), "X"),
    Ref(RelRef("b", "list", <<"title">>)) }

Inputs ==
  {Disk(RootDoc(s1, s2, <<>>)) : s1 \in Sites, s2 \in Sites}
  \cup {Disk(RootDoc(s1, Plain("op"), sl)) : s1 \in Sites, sl \in Slots}
  \cup {Disk(RootDoc(s1, Plain("op"), <<>>)) : s1 \in ArraySites}

Strategies == {"unset", "rename", "ignore", "error"}

\* what the caller may pass to the constructor as apiDocument for the files on disk:
\* nothing, or for some inputs the parsed root document, as read or from an earlier
\* resolution (carrying x-resolved-from and x-resolved-at)
Given(disk) ==
  {[heap |-> <<>>, root |-> 0]}
  \cup IF disk \in {Disk(RootDoc(s, Plain("op"), <<>>)) : s \in {Ref(BHealth)}}
       THEN With(yamlLoad(disk[DocKey(RootUrl)], 1), LAMBDA h :
              {[heap |-> h, root |-> 1],
               [heap |-> [h EXCEPT ![1].from = Href(RootUrl), ![1].at = TRUE], root |-> 1]})
       ELSE {}

Init ==
  /\ files \in Inputs
  /\ opts \in Strategies
  /\ \E g \in Given(files) : heap = g.heap /\ root = g.root
  /\ cache = <<>>
  /\ memo = <<>>
  /\ rewritten = [path |-> {}, fragment |-> {}]
  /\ changed = FALSE
  /\ pass = 0
  /\ status = "init"
  /\ stack = <<>>
  /\ err = <<>>
  /\ events = <<>>
  /\ probe = Idle

Next ==
  \/ Resolve
  \/ BeginPass
  \/ Visit
  \/ \E i \in 1..Len(stack) : Inline(i)
  \/ Return
  \/ Finish

Spec == Init /\ [][Next]_vars

\* every continuation the event loop holds is run eventually
FairSpec == Spec /\ WF_vars(Next)

----------------------------------------------------------------------------
(* The loader and the pointer conversions called on their own *)

\* a resolver that has not been asked to resolve, and one call to make
CallInit ==
  /\ files = Disk(RootDoc(Plain("op"), Plain("op"), <<>>))
  /\ opts = "unset"
  /\ heap = <<>> /\ root = 0 /\ cache = <<>> /\ memo = <<>>
  /\ rewritten = [path |-> {}, fragment |-> {}]
  /\ changed = FALSE /\ pass = 0 /\ status = "init"
  /\ stack = <<>> /\ err = <<>> /\ events = <<>>
  /\ probe \in {Probe("api", p, <<>>, <<>>) : p \in Protocols}
             \cup {Probe("keys", "", ks, <<>>) : ks \in KeySeqs}
             \cup {Probe("fragment", "", <<>>, f) : f \in Fragments}

resolverVars == <<files, opts, heap, root, cache, memo, rewritten, changed, pass, status,
                  stack, err, events>>

\* api(url) for a document that is not cached picks what reads the text
ReadText ==
  /\ probe.op = "api" /\ ~probe.called
  /\ probe' = [probe EXCEPT !.called = TRUE, !.reader = reader(probe.protocol)]
  /\ UNCHANGED resolverVars

\* asKeys(asFragment(keys, true))
KeysRoundTrip ==
  /\ probe.op = "keys" /\ ~probe.called
  /\ \E f \in {asFragment(probe.keys, TRUE)} :
        probe' = [probe EXCEPT !.called = TRUE, !.outFragment = f, !.outKeys = asKeys(f)]
  /\ UNCHANGED resolverVars

\* asFragment(asKeys(fragment), true), as processComponentReplacement does for the
\* fragment of a component reference
FragmentRoundTrip ==
  /\ probe.op = "fragment" /\ ~probe.called
  /\ \E ks \in {asKeys(probe.fragment)} :
        probe' = [probe EXCEPT !.called = TRUE, !.outKeys = ks,
                               !.outFragment = asFragment(ks, TRUE)]
  /\ UNCHANGED resolverVars

CallNext ==
  \/ ReadText
  \/ KeysRoundTrip
  \/ FragmentRoundTrip

CallSpec == CallInit /\ [][CallNext]_vars

----------------------------------------------------------------------------
(* The document as a value: the tree below an object, to depth d *)

RECURSIVE Tree(_, _, _)
Tree(h, id, d) ==
  [ref |-> h[id].ref, from |-> h[id].from, at |-> h[id].at, marked |-> h[id].marked,
   sc |-> h[id].sc, arr |-> h[id].arr,
   kids |-> IF d = 0 THEN <<>>
            ELSE [i \in 1..Len(h[id].kids) |->
                    [k |-> h[id].kids[i].k, t |-> Tree(h, h[id].kids[i].v, d - 1)]]]

----------------------------------------------------------------------------
(* What the properties speak about: the input texts and the returned document *)

Done == status = "done"

Failed == status = "failed"

\* the text of the root document, and what it has at paths/p1
RootText == files[DocKey(RootUrl)]

\* the objects of the returned document
Output == Reach(heap, {root})

\* the object at a path of the returned document, 0 when there is none
At(nav) == itemAtPointer(heap, root, nav)

\* the own keys of components/schemas in the returned document
SectionKeys == IF At(<<"components", "schemas">>) = 0 THEN {}
               ELSE OwnKeys(heap[At(<<"components", "schemas">>)])

\* the references written in a document text
RECURSIVE RefsOf(_)
RefsOf(t) ==
  (IF t.ref.form = "none" THEN {} ELSE {t.ref})
    \cup UNION {RefsOf(t.kids[i].t) : i \in 1..Len(t.kids)}

\* the part of a document text at a path (an empty object when there is none)
RECURSIVE TextAt(_, _)
TextAt(t, keys) ==
  IF keys = <<>> THEN t
  ELSE IF \E i \in 1..Len(t.kids) : t.kids[i].k = Head(keys)
       THEN TextAt(t.kids[CHOOSE i \in 1..Len(t.kids) : t.kids[i].k = Head(keys)].t,
                   Tail(keys))
       ELSE T(NoStr, {}, <<>>)

\* the text of a document (an empty object when there is no such document)
TextOf(dk) == IF dk \in DOMAIN files THEN files[dk] ELSE T(NoStr, {}, <<>>)

\* the component URLs the references of a text denote, the text being part of document dk
ComponentRefs(dk, t, externalOnly) ==
  {u \in {NewURL(r, [dir |-> dk.dir, file |-> dk.file, frag |-> <<>>]) :
            r \in {q \in RefsOf(t) : ~externalOnly \/ q.form # "local"}} :
     IsComponentFragment(u.frag)}

\* the components reachable from the root text through chains of component references
RECURSIVE Chain(_)
Chain(U) ==
  LET N == U \cup UNION {ComponentRefs(DocKey(u), TextAt(TextOf(DocKey(u)), u.frag), FALSE) :
                           u \in U}
  IN IF N = U THEN U ELSE Chain(N)

Required == Chain(ComponentRefs(DocKey(RootUrl), RootText, TRUE))

----------------------------------------------------------------------------
(* Properties *)

\* C1: when resolve() returns, no object of the returned document is a reference
\* object whose `$ref` does not start with `#`
C1_NoExternalRefRemains ==
  Done => \A i \in Output : isRef(heap[i]) => heap[i].ref.form = "local"

\* C2: when resolve() returns, every component reachable from the root document
\* through a chain of external component references is a key of the root's
\* components/<section>, and the entry is an object without `$ref`
C2_TransitiveInjection ==
  Done => \A u \in Required :
            /\ At(u.frag) # 0
            /\ ~isRef(heap[At(u.frag)])

\* the returned document less the two keys resolve() adds to the root
Returned0 == Tree([heap EXCEPT ![root].from = NoStr, ![root].at = FALSE], root, Len(heap))

\* the root document as yaml.load gives it
Loaded0 == Tree(yamlLoad(RootText, 1), 1, TSize(RootText))

LocalOnly == \A r \in RefsOf(RootText) : r.form = "local"

\* C3: for a root document whose references all start with `#`, the returned
\* document is the input plus the root keys x-resolved-from and x-resolved-at,
\* and no other document was read
C3_LocalRefsLeftAlone ==
  (Done /\ LocalOnly) =>
     /\ Returned0 = Loaded0
     /\ heap[root].from = Href(RootUrl)
     /\ heap[root].at
     /\ DOMAIN cache = {DocKey(RootUrl)}

\* a local-only root document with at least one reference has been resolved
C3_Witness == Done /\ LocalOnly /\ RefsOf(RootText) # {}

\* the root's component A refers to B of ../b/b, which refers back to A; the root
\* has no other external reference, and its local references have targets
CycleInput ==
  /\ opts = "unset"
  /\ TextAt(RootText, Comp("schemas", "A")) = Holder("R A", "b", Ref(BB))
  /\ \A r \in RefsOf(RootText) :
        IF r.form = "local" THEN TextAt(RootText, r.frag) # T(NoStr, {}, <<>>) ELSE r = BB

\* resolve() has returned; components/schemas has the keys A and B, two distinct
\* objects without `$ref`; every reference of the document is local and has a target
CycleResolved ==
  /\ Done
  /\ SectionKeys = {"A", "B"}
  /\ ~isRef(heap[At(Comp("schemas", "A"))])
  /\ ~isRef(heap[At(Comp("schemas", "B"))])
  /\ At(Comp("schemas", "A")) # At(Comp("schemas", "B"))
  /\ \A i \in Output : isRef(heap[i]) =>
        /\ heap[i].ref.form = "local"
        /\ At(heap[i].ref.frag) # 0

\* C4: a root document whose component A refers to component B of another document,
\* B referring back to A, is resolved (default strategy) in finitely many steps, and
\* then A and B are each once in components/schemas, objects without `$ref`, with
\* every reference local and pointing at something
C4_CycleTerminates == (status = "init" /\ CycleInput) ~> CycleResolved

\* the cycle has been resolved, the reference back to the root's A included
C4_Witness ==
  /\ CycleInput
  /\ CycleResolved
  /\ \E i \in 1..Len(events) :
        events[i].kind = "inject" /\ events[i].url = NewURL(LocalRef(Comp("schemas", "A")), RootUrl)

\* the paths of a document text
RECURSIVE Navs(_)
Navs(t) ==
  {<<>>} \cup UNION {{<<t.kids[i].k>> \o n : n \in Navs(t.kids[i].t)} : i \in 1..Len(t.kids)}

\* where the root text has a reference to a component of another document
CallSites ==
  {nav \in Navs(RootText) :
     /\ TextAt(RootText, nav).ref.form \in {"rel", "abs"}
     /\ IsComponentFragment(TextAt(RootText, nav).ref.frag)}

\* the components the root text defines itself
RootOwn ==
  {NewURL(LocalRef(nav), RootUrl) :
     nav \in {n \in Navs(RootText) :
                IsComponentFragment(n) /\ TextAt(RootText, n).ref.form = "none"}}

\* the components to inject whose slot another source claims too
Clashes == {u \in Required : \E v \in Required \cup RootOwn : v # u /\ v.frag = u.frag}

\* the injections that found the slot holding a component from another source
Conflicts ==
  {i \in 1..Len(events) :
     /\ events[i].kind \in {"inject", "slot-item", "slot-merge"}
     /\ events[i].conflict
     /\ events[i].existing # events[i].item
     /\ ~isRef(heap[events[i].existing])}

\* the root refers to `health` of ../b/b and to `health` of ../c/c
TwoSources == RootText = RootDoc(Ref(BHealth), Ref(CHealth), <<>>)

\* C5: under `rename`, a component whose slot holds a component from another source
\* is stored under the first free name among name1, name2, .., the existing one
\* stays in its slot, the referencing node points at the new slot; with two sources
\* of `health` the section has exactly the keys health and health1
C5_Rename ==
  /\ (opts = "rename" /\ TwoSources) => ~Failed
  /\ (Done /\ opts = "rename") =>
       /\ \A i \in Conflicts :
            LET e    == events[i]
                sec  == e.url.frag[2]
                name == e.url.frag[3]
            IN /\ \E k \in 1..Cardinality(SectionKeys) :
                    /\ e.name = CandidateName(name, k)
                    /\ \A m \in 0..(k - 1) : CandidateName(name, m) \in SectionKeys
               /\ At(Comp(sec, name)) = e.existing
               /\ At(Comp(sec, e.name)) = e.item
               /\ e.kind = "inject" => heap[e.node].ref = LocalRef(Comp(sec, e.name))
       /\ TwoSources => SectionKeys = {"health", "health1"}

\* C6: under `error`, when a component to inject finds its slot holding a component
\* from another source, resolve() returns no document and the error message names
\* the keys components, <section>, <name> of the slot
C6_ErrorNamesPath ==
  (opts = "error" /\ Clashes # {}) =>
     /\ ~Done
     /\ Failed => \E u \in Clashes :
                    \A j \in 1..3 : \E m \in 1..Len(err) : err[m] = u.frag[j]

\* C7: under `ignore`, the component found in the slot stays there unchanged, the new
\* one is dropped and no renamed key appears; with two sources of `health` resolve()
\* succeeds and the section has the one key health, holding the first component
C7_Ignore ==
  /\ (opts = "ignore" /\ TwoSources) => ~Failed
  /\ (Done /\ opts = "ignore") =>
       /\ \A i \in Conflicts :
            LET e    == events[i]
                sec  == e.url.frag[2]
                name == e.url.frag[3]
            IN /\ At(Comp(sec, name)) = e.existing
               /\ CandidateName(name, 1) \notin SectionKeys
       /\ TwoSources =>
            /\ SectionKeys = {"health"}
            /\ heap[At(Comp("schemas", "health"))].sc
                 = TextAt(DocB, Comp("schemas", "health")).sc

\* the name itself or the name with a suffix
IsCandidate(k, name) == \E j \in 0..Cardinality(SectionKeys) : k = CandidateName(name, j)

\* the call sites with sibling properties that are not the slot they refer to
SiblingSites ==
  {nav \in CallSites :
     TextAt(RootText, nav).sc # {} /\ nav # TextAt(RootText, nav).ref.frag}

\* C8: a reference node with sibling properties that refers to an external component
\* is, wherever it lies (a component slot of another name included), still a reference
\* node after resolve, with its sibling properties and a local `$ref` to a slot of the
\* section, and the entry of that slot has none of the sibling properties
C8_SiblingsKept ==
  Done => \A nav \in SiblingSites :
            LET t == TextAt(RootText, nav)
                n == At(nav)
            IN /\ n # 0
               /\ isRef(heap[n])
               /\ t.sc \subseteq heap[n].sc
               /\ heap[n].ref.form = "local"
               /\ IsComponentFragment(heap[n].ref.frag)
               /\ heap[n].ref.frag[2] = t.ref.frag[2]
               /\ At(heap[n].ref.frag) # 0
               /\ heap[At(heap[n].ref.frag)].sc \cap t.sc = {}

\* C9: every occurrence of an external component reference at a call site that is not
\* a component slot ends with `$ref` = #/components/<section>/<finalName>, an existing
\* slot, and with no key it did not have
C9_EveryOccurrence ==
  Done => \A nav \in CallSites :
            ~isAtComponent(nav) =>
              LET t == TextAt(RootText, nav)
                  n == At(nav)
              IN /\ n # 0
                 /\ heap[n].ref.form = "local"
                 /\ IsComponentFragment(heap[n].ref.frag)
                 /\ heap[n].ref.frag[2] = t.ref.frag[2]
                 /\ IsCandidate(heap[n].ref.frag[3], t.ref.frag[3])
                 /\ At(heap[n].ref.frag) # 0
                 /\ heap[n].sc = t.sc
                 /\ heap[n].kids = <<>>
                 /\ heap[n].from = NoStr /\ ~heap[n].at /\ ~heap[n].marked

\* the reference nodes without siblings that lie in the slot they refer to
SameNameSites ==
  {nav \in CallSites :
     TextAt(RootText, nav).sc = {} /\ nav = TextAt(RootText, nav).ref.frag}

\* C10: a reference node without siblings at components/<section>/<name> that refers
\* to <uri>#/components/<section>/<name> is replaced in place by the content of the
\* target: the slot has no `$ref`, no alias and no renamed entry exists, and the memo
\* maps the reference to #/components/<section>/<name>
C10_SameNamePassthrough ==
  Done => \A nav \in SameNameSites :
            LET u == NewURL(TextAt(RootText, nav).ref, RootUrl)
                n == At(nav)
            IN /\ n # 0
               /\ ~isRef(heap[n])
               /\ heap[n].sc = TextAt(TextOf(DocKey(u)), u.frag).sc
               /\ \A k \in SectionKeys \ {nav[3]} :
                     /\ At(Comp(nav[2], k)) # n
                     /\ ~IsCandidate(k, nav[3])
               /\ Href(u) \in DOMAIN memo
               /\ memo[Href(u)] = LocalRef(nav)

----------------------------------------------------------------------------
\* the visitor call that completed in this step, when it was one of the given kind
Completed(kind) ==
  /\ Len(events') > Len(events)
  /\ events'[Len(events')].kind = kind

\* node[k] whatever its type: [k, v] tagged with the type
Member(n, k) ==
  IF HasKid(n, k) THEN <<"object", Kid(n, k)>>
  ELSE <<"scalar", CHOOSE p \in n.sc : p.k = k>>

----------------------------------------------------------------------------
\* where the root text has a reference to a whole document other than the root
FullSites ==
  {nav \in Navs(RootText) :
     /\ TextAt(RootText, nav).ref.form \in {"rel", "abs"}
     /\ TextAt(RootText, nav).ref.frag = <<>>
     /\ DocKey(NewURL(TextAt(RootText, nav).ref, RootUrl)) # DocKey(RootUrl)}

\* the document a full site refers to
SiteDoc(nav) == DocKey(NewURL(TextAt(RootText, nav).ref, RootUrl))

\* n1 comes before n2 in the order the traversal enters the nodes of the root text:
\* an ancestor before its descendants, paths/p1 before paths/p2
Earlier(n1, n2) ==
  /\ n1 # n2
  /\ \/ Len(n1) < Len(n2) /\ SubSeq(n2, 1, Len(n1)) = n1
     \/ /\ Len(n1) >= 2 /\ Len(n2) >= 2
        /\ n1[1] = "paths" /\ n2[1] = "paths" /\ n1[2] = "p1" /\ n2[2] = "p2"

\* the first of the full sites that refer to the document of nav
FirstSite(nav) ==
  CHOOSE f \in FullSites :
    /\ SiteDoc(f) = SiteDoc(nav)
    /\ \A g \in FullSites : SiteDoc(g) = SiteDoc(nav) /\ g # f => Earlier(f, g)

\* the root refers more than once to the whole of ../b/b/percent, a document without
\* references, and has no other external reference
DuplicateFull ==
  /\ \E n1, n2 \in FullSites : n1 # n2
  /\ \A r \in RefsOf(RootText) : r.form = "local" \/ r = RelRef("b", "percent", <<>>)

\* C12: of the references of the root to the same whole document, the first is
\* inlined at its path P; each later one is not inlined, keeps its node and gets
\* `$ref` = #P, and when resolve() returns (it does not fail on such a root) P holds
\* the inlined document
C12_DuplicateFull ==
  /\ DuplicateFull => ~Failed
  /\ Done =>
       \A nav \in FullSites :
         LET P == FirstSite(nav)
             u == NewURL(TextAt(RootText, nav).ref, RootUrl)
             inlined == {i \in 1..Len(events) :
                           events[i].kind = "full" /\ DocKey(events[i].url) = DocKey(u)}
         IN /\ Cardinality(inlined) = 1
            /\ \A i \in inlined : events[i].nav = P /\ At(P) = events[i].res
            /\ ~isRef(heap[At(P)])
            /\ heap[At(P)].from = Href(u)
            /\ nav # P =>
                  /\ heap[At(nav)].ref = LocalRef(P)
                  /\ TextAt(RootText, nav).sc \subseteq heap[At(nav)].sc

----------------------------------------------------------------------------
\* a document text with every reference resolved against the URL of its document
RECURSIVE Rebased(_, _)
Rebased(t, base) ==
  [ref  |-> IF t.ref.form = "none" THEN NoStr ELSE Href(NewURL(t.ref, base)),
   sc   |-> t.sc,
   arr  |-> t.arr,
   kids |-> [i \in 1..Len(t.kids) |->
               [k |-> t.kids[i].k, t |-> Rebased(t.kids[i].t, base)]]]

\* the tree below an object less the provenance keys and the marker, to depth d
RECURSIVE Shape(_, _, _)
Shape(h, id, d) ==
  [ref  |-> h[id].ref,
   sc   |-> h[id].sc,
   arr  |-> h[id].arr,
   kids |-> IF d = 0 THEN <<>>
            ELSE [i \in 1..Len(h[id].kids) |->
                    [k |-> h[id].kids[i].k, t |-> Shape(h, h[id].kids[i].v, d - 1)]]]

\* the visitor call that completed in this step read the document it refers to
ReadNow == Len(events') = Len(events) + 2 /\ events'[Len(events) + 1].kind = "read"

\* the log evs has two reads of the document dk
Refetched(evs, dk) ==
  \E i, j \in 1..Len(evs) :
     /\ i < j
     /\ evs[i].kind = "read" /\ evs[j].kind = "read"
     /\ DocKey(evs[i].url) = dk /\ DocKey(evs[j].url) = dk

\* what C13 says of the visitor call e that completed in this step for a document
\* that has been read once, `plain` being what it says of the replacement being a
\* reference
OtherRoundTrip(plain(_, _)) ==
  (/\ Completed("other")
   /\ DocKey(events'[Len(events')].url) # DocKey(RootUrl)
   /\ ~Refetched(events', DocKey(events'[Len(events')].url))) =>
    LET e == events'[Len(events')]
        r == heap'[e.res]
        n == heap[e.node]
        a == heap'[e.item]
        t == TextAt(TextOf(DocKey(e.url)), e.url.frag)
    IN /\ e.res \notin DOMAIN heap
       /\ plain(r, a)
       /\ OwnKeys(r) = OwnKeys(a) \cup OwnKeys(n)
       /\ \A k \in OwnKeys(r) \ OwnKeys(n) : Member(r, k) = Member(a, k)
       /\ \A k \in OwnKeys(n) : Member(r, k) = Member(n, k)
       /\ OwnKeys(a) = {t.kids[i].k : i \in 1..Len(t.kids)} \cup {p.k : p \in t.sc}
       /\ a.sc = t.sc
       /\ ReadNow => Shape(heap', e.item, TSize(t)) = Rebased(t, urlNonFragment(e.url))

\* C13: the object that replaces a reference <uri>#<pointer>, <uri> being another
\* document than the root and the pointer not that of a component, is a new object
\* that is not a reference; it has the keys of the item at <pointer> with the item's
\* values, but for the sibling keys of the reference node; and the item is what the
\* source text has at <pointer>, the references in it resolved against <uri>
C13_OtherRoundTrip == [][OtherRoundTrip(LAMBDA r, a : ~isRef(r))]_vars

----------------------------------------------------------------------------
----------------------------------------------------------------------------
\* the visitor calls that brought an object of another source into the document, and
\* the object each brought: the merged copy, or the item itself
Brought == {i \in 1..Len(events) :
              events[i].kind \in {"full", "other", "inject", "slot-item", "slot-merge"}}

BroughtObject(e) == IF e.kind \in {"full", "other", "slot-merge"} THEN e.res ELSE e.item

\* C15: in the document resolve() returns, the root has x-resolved-from = the URL of
\* the root document and x-resolved-at; every object merged in or injected that is
\* part of the document has x-resolved-from = the URL it was taken from; no object
\* but the root has x-resolved-at
C15_Provenance ==
  Done =>
    /\ heap[root].from = Href(RootUrl)
    /\ heap[root].at
    /\ \A i \in Brought :
          BroughtObject(events[i]) \in Output \ {root}
            => heap[BroughtObject(events[i])].from = Href(events[i].url)
    /\ \A i \in Output \ {root} : ~heap[i].at

----------------------------------------------------------------------------
\* the visitor calls that threw
Throws == {i \in 1..Len(events) : events[i].kind = "throw"}

\* the root text has a reference that cannot be resolved: to a document that does not
\* exist, or one that is no URL
Broken ==
  \E r \in RefsOf(RootText) :
     \/ r = BadRef
     \/ r.form \in {"rel", "abs"} /\ DocKey(NewURL(r, RootUrl)) \notin DOMAIN files

\* the message resolve() rejects with for a reference of the root text that cannot
\* be resolved
BrokenMessages ==
  {IF r = BadRef THEN <<"Invalid URL">> ELSE <<"ENOENT">> :
     r \in {q \in RefsOf(RootText) :
              \/ q = BadRef
              \/ q.form \in {"rel", "abs"} /\ DocKey(NewURL(q, RootUrl)) \notin DOMAIN files}}

\* what C16 says of every state
FailuresFatal ==
  /\ Throws # {} => ~Done
  /\ Broken => ~Done
  /\ (opts = "error" /\ Clashes # {}) => ~Done
  /\ Failed => /\ \E i \in Throws : err = <<events[i].name>>
               /\ root = 0 \/ ~heap[root].at
  /\ \A i, j \in Throws : i # j => events[i].node # events[j].node

----------------------------------------------------------------------------
\* the reads of documents, in order
Reads == {i \in 1..Len(events) : events[i].kind = "read"}

\* C17: in one run no document is read twice, and every visitor call that found its
\* document in urlToApiObjectMap works on the object the map holds for it
C17_FetchedOnce ==
  /\ \A i, j \in Reads : i # j => events[i].url # events[j].url
  /\ \A k \in 1..Len(stack) :
        (stack[k].cb = "pending" /\ stack[k].cached # 0)
          => stack[k].cached = cache[DocKey(stack[k].url)]

----------------------------------------------------------------------------
\* the activations whose visitor call has not completed
Pending == {k \in 1..Len(stack) : stack[k].cb = "pending"}

\* C18: while the visitor call for a node has not completed, the walk has entered no
\* other node, so there are never two visitor calls waiting for a document
C18_OneAtATime ==
  /\ Cardinality(Pending) <= 1
  /\ \A k \in Pending : k = Len(stack)

----------------------------------------------------------------------------
\* the string a visitor call looks up and registers in resolvedRefToRefMap
MemoKey(e) == IF classify(e.url) = "other" THEN e.ref ELSE Href(e.url)

\* C19: rememberReplacementForRef is never called for a reference that has a
\* replacement (its assertion does not fail); no reference is inlined or injected
\* twice; and a visitor call that took the replacement from the memo follows one that
\* registered it
C19_MemoWriteOnce ==
  /\ \A i \in Throws : events[i].name # "ref already has a replacement"
  /\ \A i, j \in Brought : i # j => MemoKey(events[i]) # MemoKey(events[j])
  /\ \A j \in 1..Len(events) :
        events[j].kind \in {"memo", "seen"}
          => \E i \in Brought : i < j /\ MemoKey(events[i]) = MemoKey(events[j])

----------------------------------------------------------------------------
\* the walk is inside an object and enters it again: the document has become cyclic
\* and walkObj recurses without end
Reentered == \E j, k \in 1..Len(stack) : j < k /\ stack[j].node = stack[k].node

\* C20: the walk never enters an object it is already inside, and every run of
\* resolve() ends, returning the document or rejecting
C20_Terminates == []~Reentered /\ ((status = "init") ~> (Done \/ Failed))

----------------------------------------------------------------------------
\* the entry of the event log that opened the pass under way, 0 before the first pass
PassStart ==
  IF \E i \in 1..Len(events) : events[i].kind = "pass"
  THEN CHOOSE i \in 1..Len(events) :
         /\ events[i].kind = "pass"
         /\ \A j \in (i + 1)..Len(events) : events[j].kind # "pass"
  ELSE 0

\* the events of the given kinds logged since the pass under way began
InPass(kinds) == {i \in (PassStart + 1)..Len(events) : events[i].kind \in kinds}

BroughtKinds == {"full", "other", "inject", "slot-item", "slot-merge"}

\* a visitor call that met an external reference it had no replacement for
NeedKinds == BroughtKinds \cup {"seen", "throw"}

\* a traversal has returned to the driver loop
PassOver == status = "walking" /\ stack = <<>> /\ pass >= 1

Marked == {n \in 1..Len(heap) : heap[n].marked}

\* C21: after a pass in which a reference node was inlined or injected the driver
\* starts another traversal; a further traversal starts only after a pass in which
\* the visitor met an external reference needing resolution; the driver loop ends
\* only after a pass that met none, and only that step tags the root and removes
\* the already-resolved markers
C21_Fixpoint ==
  [][/\ (PassOver /\ InPass(BroughtKinds) # {}) => (pass' = pass + 1 /\ status' = "walking")
     /\ (pass >= 1 /\ pass' = pass + 1) => (PassOver /\ InPass(NeedKinds) # {})
     /\ (status = "walking" /\ status' = "done")
           => /\ PassOver /\ InPass(NeedKinds) = {}
              /\ heap'[root].from # NoStr /\ heap'[root].at
              /\ \A n \in Reach(heap', {root}) : ~heap'[n].marked
     /\ (status' # "done")
           => /\ heap'[root'].from = NoStr /\ ~heap'[root'].at
              /\ \A n \in Marked : heap'[n].marked]_vars

C21_Witness ==
  /\ Done
  /\ pass >= 3
  /\ PassStart > 0
  /\ \E i \in 1..PassStart : events[i].kind \in BroughtKinds
  /\ InPass(NeedKinds) = {}

----------------------------------------------------------------------------
\* walkObj has been entered on a node in this step: the activation pushed
Entered == Len(stack') = Len(stack) + 1

\* the callback for the node entered in this step reached refResolvingVisitor and
\* went past its `#` test: it rewrote the reference from the memo, threw, or is
\* waiting in an inliner
Classified ==
  /\ Entered
  /\ \/ stack'[Len(stack')].cb \in {"pending", "failed"}
     \/ Completed("memo")
     \/ Completed("seen")

\* the nodes below a marked node that is on the walk's path
UnderMarked == Reach(heap, {stack[k].node : k \in {j \in 1..Len(stack) : heap[stack[j].node].marked}})

\* C22: the walk does not recurse into a node that carries the already-resolved
\* marker: neither the node nor any descendant of it is passed to the classifier
C22_MarkedSubtreeSkipped ==
  [][Entered => LET n == stack'[Len(stack')].node
                IN (heap[n].marked \/ n \in UnderMarked) => ~Classified]_vars

\* C22 as the code has it: a reference node that carries the marker is not passed to
\* the classifier and is left as it is; the walk goes on into the members of every
\* node, marked or not
C22_MarkedRefSkipped ==
  [][Entered => LET n == stack'[Len(stack')].node
                IN /\ heap[n].marked => (~Classified /\ heap'[n] = heap[n])
                   /\ stack'[Len(stack')].keys = KidKeys(heap'[n])]_vars

C22_Witness ==
  \E k \in 1..Len(stack) :
     /\ heap[stack[k].node].marked
     /\ heap[stack[k].node].ref.form \in {"rel", "abs"}
     /\ stack[k].kind = "none"
     /\ stack[k].cb = "done"
     /\ stack[k].keys # <<>>

----------------------------------------------------------------------------
\* the reference objects of the document urlToApiObjectMap holds under the key dk
DocRefs(dk) ==
  IF dk \in DOMAIN cache THEN {n \in Reach(heap, {cache[dk]}) : isRef(heap[n])} ELSE {}

\* an inliner has run in this step, for a reference into the document with key dk
\* made by the node r
Inlined(dk, r) ==
  \E i \in 1..Len(stack) :
     /\ stack[i].cb = "pending"
     /\ stack'[i].cb # "pending"
     /\ DocKey(stack[i].url) = dk
     /\ stack[i].node = r

----------------------------------------------------------------------------
\* C24: a document that gets both rewrites gets the fragment rewrite (the prefixing of
\* its `#` references) before the path rewrite, also when a component or
\* other-fragment reference touched it before the reference that inlines it whole:
\* at the step that records a document as fragment-rewritten it is not yet recorded
\* as path-rewritten
C24_FragmentBeforePath ==
  [][\A dk \in (rewritten'.fragment \ rewritten.fragment) : dk \notin rewritten.path]_vars

----------------------------------------------------------------------------
\* where the text of document dk has a `#` reference
LocalSites(dk) == {n \in Navs(TextOf(dk)) : TextAt(TextOf(dk), n).ref.form = "local"}

\* in heap h the copy of document dk inlined as object id, which is at path P of the
\* root, has every `#/q` of the text as `#P/q`, and the copy has a node at q
PrefixedIn(h, id, P, dk) ==
  \A n \in LocalSites(dk) :
     LET q == TextAt(TextOf(dk), n).ref.frag
     IN /\ itemAtPointer(h, id, n) # 0
        /\ h[itemAtPointer(h, id, n)].ref = LocalRef(P \o q)
        /\ itemAtPointer(h, id, q) # 0

\* C25: a reference `#/q` written in a document that is inlined whole at path P is
\* `#P/q` once the document is inlined and in the document resolve() returns, where
\* it addresses the inlined copy of the node at q
C25_LocalRefsPrefixed ==
  /\ [][Completed("full") =>
          LET e == events'[Len(events')]
          IN DocKey(e.url) # DocKey(RootUrl)
                => PrefixedIn(heap', e.res, e.nav, DocKey(e.url))]_vars
  /\ [](Done => \A P \in FullSites :
                   (FirstSite(P) = P /\ At(P) # 0) => PrefixedIn(heap, At(P), P, SiteDoc(P)))

----------------------------------------------------------------------------
\* the paths of the text of document dk at which the cached document has the object n
PathsOf(dk, n) ==
  IF dk \in DOMAIN cache
  THEN {p \in Navs(TextOf(dk)) : itemAtPointer(heap, cache[dk], p) = n}
  ELSE {}

\* the URL a reference written in document dk denotes
Denotes(r, dk) == NewURL(r, [dir |-> dk.dir, file |-> dk.file, frag |-> <<>>])

----------------------------------------------------------------------------
\* the inliner C27 names for a reference that denotes url
Expected(url) ==
  IF Len(url.frag) = 0 THEN "full"
  ELSE IF Len(url.frag) = 3 /\ url.frag[1] = "components" /\ url.frag[2] # "" /\ url.frag[3] # ""
       THEN "component"
       ELSE "other"

\* the events an inliner logs when it returns
Logs(kind) ==
  IF kind = "full" THEN {"full"}
  ELSE IF kind = "component" THEN {"inject", "slot-item", "slot-merge"}
  ELSE IF kind = "other" THEN {"other"}
  ELSE {}

----------------------------------------------------------------------------
\* C28: a visitor call answered from the memo (by the reference as written, or by the
\* normalized key inside an inliner) reads no document, loads and rewrites none,
\* registers nothing and inserts no component: the only thing it changes in the heap
\* is the $ref of its node, which becomes the remembered replacement
C28_MemoHitFrame ==
  [][(Completed("memo") \/ Completed("seen")) =>
        LET e == events'[Len(events')]
        IN /\ cache' = cache /\ rewritten' = rewritten /\ memo' = memo /\ files' = files
           /\ \A i \in (Len(events) + 1)..Len(events') : events'[i].kind # "read"
           /\ Len(heap') = Len(heap)
           /\ \A n \in 1..Len(heap) : n # e.node => heap'[n] = heap[n]
           /\ heap'[e.node] = [heap[e.node] EXCEPT !.ref = heap'[e.node].ref]
           /\ heap'[e.node].ref.form = "local"
           /\ heap'[e.node].ref \in {memo[k] : k \in DOMAIN memo}]_vars

\* a reference node that has sibling keys was answered from the memo
C28_Witness ==
  \E i \in 1..Len(events) :
     /\ events[i].kind \in {"memo", "seen"}
     /\ \E p \in heap[events[i].node].sc : p.k = "description"
     /\ heap[events[i].node].ref \in {memo[k] : k \in DOMAIN memo}

----------------------------------------------------------------------------
\* the object is the component the URL addresses: the item the cached document has
\* there, or an object injected from there before
SameSource(existing, url) ==
  /\ existing # 0
  /\ \/ /\ DocKey(url) \in DOMAIN cache
        /\ existing = itemAtPointer(heap, cache[DocKey(url)], url.frag)
     \/ heap[existing].from = Href(url)

\* the component inliner has completed in this step, by returning or by throwing, for
\* the activation i
ComponentInlined(i) ==
  /\ i \in 1..Len(stack)
  /\ stack[i].cb = "pending"
  /\ stack[i].kind = "component"
  /\ stack'[i].cb # "pending"

\* C29: when the component inliner finds in the slot it is to fill the component of
\* the same source location, it raises no error and renames nothing, whatever the
\* conflict strategy: the slot keeps the entry it has, under the name it has (said
\* of documents that have been read once and of references the memo does not hold)
C29_SameSourceReentry ==
  [][\A i \in 1..Len(stack) :
        (ComponentInlined(i) /\ SameSource(At(stack[i].url.frag), stack[i].url)
           /\ At(stack[i].url.frag) # stack[i].node
           /\ ~Refetched(events', DocKey(stack[i].url))
           /\ Href(stack[i].url) \notin DOMAIN memo)
          => /\ stack'[i].cb = "done"
             /\ events'[Len(events')].name = stack[i].url.frag[3]
             /\ itemAtPointer(heap', root, stack[i].url.frag) = At(stack[i].url.frag)
             /\ OwnKeys(heap'[At(<<"components", stack[i].url.frag[2]>>)])
                  = OwnKeys(heap[At(<<"components", stack[i].url.frag[2]>>)])]_vars

----------------------------------------------------------------------------
\* the members of objects of the returned document that hold the object n
ParentEdges(n) ==
  {pk \in UNION {{<<p, i>> : i \in 1..Len(heap[p].kids)} : p \in Output} :
     heap[pk[1]].kids[pk[2]].v = n}

\* the objects of the documents urlToApiObjectMap holds, the root document aside
CachedNodes ==
  Reach(heap, {cache[dk] : dk \in DOMAIN cache \ {DocKey(RootUrl)}})

\* C30: what is inserted into the document is a copy: in the document resolve()
\* returns no object is held by two members (or is the root and held by a member),
\* and no object is an object of a cached source document
C30_NoSharing ==
  Done => /\ \A n \in Output \ {root} : Cardinality(ParentEdges(n)) = 1
          /\ ParentEdges(root) = {}
          /\ Output \cap CachedNodes = {}

----------------------------------------------------------------------------
\* every `#` reference written in a source document addresses a node of that document
LocalsSound ==
  \A dk \in DOMAIN files :
     \A r \in RefsOf(files[dk]) : r.form = "local" => r.frag \in Navs(files[dk])

\* the `#` references of the returned document that address no node of it
Dangling == {n \in Output : heap[n].ref.form = "local" /\ At(heap[n].ref.frag) = 0}

\* C31: when no source document has a dangling `#` reference, the document resolve()
\* returns has none either: every `#` reference in it, those written from the memo
\* included, addresses a node of the returned document
C31_NoDanglingLocal == (Done /\ LocalsSound) => Dangling = {}

----------------------------------------------------------------------------
\* the activation of walkObj that began in this step
New == stack'[Len(stack')]

\* the activations that are on the stack before and after this step
Kept == 1..(IF Len(stack') < Len(stack) THEN Len(stack') ELSE Len(stack))

----------------------------------------------------------------------------
\* the reference nodes whose `$ref` was rewritten from the memo
FromMemo == {events[i].node : i \in {j \in 1..Len(events) : events[j].kind \in {"memo", "seen"}}}

\* C33: every value stored in the memo is a local `#` fragment; an entry once stored is
\* neither changed nor removed; and a reference node whose `$ref` was rewritten from
\* the memo is never classified as an external reference again
C33_MemoInvariant ==
  [][/\ \A k \in DOMAIN memo' : memo'[k].form = "local"
     /\ \A k \in DOMAIN memo : k \in DOMAIN memo' /\ memo'[k] = memo[k]
     /\ Entered => (New.node \in FromMemo => ~Classified)]_vars

----------------------------------------------------------------------------
\* resolve() is called in this step on a resolver that has the document, and the
\* document carries x-resolved-from
CalledOnResolved ==
  /\ status \in {"init", "done"} /\ root # 0 /\ heap[root].from # NoStr
  /\ vars' # vars

\* C34: called on a document that carries x-resolved-from, from an earlier call of the
\* same resolver or from the constructor, resolve() returns that document as it is:
\* no traversal, no document read, no change of the memo, of the cache or of the
\* document
C34_ResolveIdempotent ==
  [][CalledOnResolved =>
        /\ status' = "done" /\ root' = root /\ heap' = heap
        /\ memo' = memo /\ cache' = cache /\ rewritten' = rewritten
        /\ stack' = <<>> /\ pass' = pass /\ changed' = changed /\ err' = <<>>
        /\ events' = Append(events, AlreadyResolved)]_vars

\* a second call has returned after the first resolved and inlined a reference
C34_Witness ==
  /\ Done /\ EarlyReturns = 1 /\ pass >= 2
  /\ \E i \in 1..Len(events) : events[i].kind \in BroughtKinds

\* resolve() has returned the resolved document that the constructor was given
C34_GivenWitness ==
  /\ Done /\ EarlyReturns = 1 /\ pass = 0
  /\ \E n \in Reach(heap, {root}) : heap[n].ref = BHealth

----------------------------------------------------------------------------
\* the walk stores the value of the callback of an other-fragment reference in the
\* parent in this step
OtherStored ==
  /\ status = "walking" /\ Len(stack) >= 2 /\ Len(stack') = Len(stack) - 1
  /\ Top.kind = "other" /\ Top.cb = "done"

\* the document the reference of the activation on top refers to, as cached
TopDoc == cache[DocKey(Top.url)]

\* C35: when an other-fragment reference addresses a string, number or boolean the
\* reference node is replaced by that value, and when it addresses an array it is
\* replaced by an array of the same elements; the member is never left undefined
C35_NonObjectTargets ==
  [][OtherStored =>
       LET parent == heap'[stack[Len(stack) - 1].node]
           key    == Top.nav[Len(Top.nav)]
           item   == itemAtPointer(heap, TopDoc, Top.url.frag)
       IN /\ [k |-> key, v |-> Undefined] \notin parent.sc
          /\ \A v \in scalarAtPointer(heap, TopDoc, Top.url.frag) :
                [k |-> key, v |-> v] \in parent.sc
          /\ (item # 0 /\ heap[item].arr) =>
                /\ HasKid(parent, key)
                /\ heap'[Kid(parent, key)].arr
                /\ heap'[Kid(parent, key)].kids = heap[item].kids]_vars

----------------------------------------------------------------------------
\* C36: a document at a `file:` location is read from the file system, one at an
\* `http:` location with the HTTP client and one at an `https:` location with the
\* HTTPS client; an `http:` location is never handed to the HTTPS client
C36_LoaderByScheme ==
  (probe.op = "api" /\ probe.called) =>
     /\ probe.protocol = "file:" => probe.reader = "fs"
     /\ probe.protocol = "http:" => probe.reader = "http"
     /\ probe.protocol = "https:" => probe.reader = "https"

----------------------------------------------------------------------------
\* the member names a key sequence addresses, one after the other
Addressed(keys) == [i \in 1..Len(keys) |-> propertyName(keys[i])]

\* C37: for every key sequence K of strings and non-negative integers,
\* asKeys(asFragment(K, true)) addresses the same node as K, and for every fragment f,
\* asFragment(asKeys(f), true) is f, names made of digits only (404, 007) included
C37_PointerRoundTrip ==
  /\ (probe.op = "keys" /\ probe.called) => Addressed(probe.outKeys) = Addressed(probe.keys)
  /\ (probe.op = "fragment" /\ probe.called) => probe.outFragment = probe.fragment

====
